---- MODULE Spec2Model ----
(***************************************************************************)
(* A model of package model_serializer (model_serializer.go): Serialize,   *)
(* SerializeList, FilterFields and FilterMapFields over Go values seen     *)
(* through package reflect.                                                *)
(*                                                                         *)
(* A Go value is a record [k, nil, t, v]: its reflect.Kind, whether it is  *)
(* a nil value of that kind, the name of its (element) type and its        *)
(* content.  A call either returns or panics; an outcome is a record       *)
(* [ok, val, panic].                                                       *)
(***************************************************************************)
EXTENDS Integers, Sequences, FiniteSets, TLC

VARIABLES model, fields, mapData, call, out

vars == <<model, fields, mapData, call, out>>

(***************************************************************************)
(* Bounds of the checked inputs.                                           *)
(***************************************************************************)
\* longest field list ([]interface{} or []string) handed to a call
MaxFields == 2
\* longest slice held by a struct field
MaxLen == 2
\* longest slice of models handed to SerializeList
MaxList == 2

\* Sequences over S of length at most n.
RECURSIVE SeqsUpTo(_, _)
SeqsUpTo(S, n) ==
    IF n = 0 THEN {<< >>}
    ELSE LET shorter == SeqsUpTo(S, n - 1)
         IN  shorter \cup {Append(s, e) : s \in {x \in shorter : Len(x) = n - 1}, e \in S}

(***************************************************************************)
(* Go values.                                                              *)
(***************************************************************************)
\* the zero reflect.Value: what reflect.ValueOf gives for an interface that
\* holds nothing, and what Value.FieldByName gives for an unknown name
Invalid == [k |-> "invalid", nil |-> TRUE, t |-> "", v |-> << >>]
StrVal(s) == [k |-> "string", nil |-> FALSE, t |-> "string", v |-> s]
IntVal(n) == [k |-> "int", nil |-> FALSE, t |-> "int", v |-> n]
BoolVal(b) == [k |-> "bool", nil |-> FALSE, t |-> "bool", v |-> b]
Struct(t, vals) == [k |-> "struct", nil |-> FALSE, t |-> t, v |-> vals]
Ptr(target) == [k |-> "ptr", nil |-> FALSE, t |-> target.t, v |-> target]
NilPtr(t) == [k |-> "ptr", nil |-> TRUE, t |-> t, v |-> Invalid]
Slice(t, elems) == [k |-> "slice", nil |-> FALSE, t |-> t, v |-> elems]
NilSlice(t) == [k |-> "slice", nil |-> TRUE, t |-> t, v |-> << >>]
Array(t, elems) == [k |-> "array", nil |-> FALSE, t |-> t, v |-> elems]
StrMap(isNil) == [k |-> "map", nil |-> isNil, t |-> "map[string]string", v |-> << >>]

\* a map[string]interface{}: a function from its keys to Go values
EmptyMap == [x \in {} |-> x]
Put(m, key, value) == [x \in DOMAIN m \cup {key} |-> IF x = key THEN value ELSE m[x]]
Delete(m, key) == [x \in DOMAIN m \ {key} |-> m[x]]
\* a map[string]interface{} and a []interface{} held in an interface{}
MapVal(m) == [k |-> "map", nil |-> FALSE, t |-> "map[string]interface {}", v |-> m]
SeqVal(s) == [k |-> "slice", nil |-> FALSE, t |-> "[]interface {}", v |-> s]

Ok(v) == [ok |-> TRUE, val |-> v, panic |-> ""]
Panic(msg) == [ok |-> FALSE, val |-> EmptyMap, panic |-> msg]

(***************************************************************************)
(* Struct types: the fields of each, in declaration order, as              *)
(* reflect.StructField: the name, the type, the kind of the type, and the  *)
(* json key of the tag (<< >> when the tag has none).                      *)
(***************************************************************************)
StructField(name, type, kind, tag) == [Name |-> name, Type |-> type, Kind |-> kind, Tag |-> tag]
ZeroStructField == StructField("", "", "invalid", << >>)

Types ==
    [ testStruct    |-> << StructField("Field1", "string", "string", <<"field1">>),
                           StructField("Field2", "int", "int", <<"field2">>),
                           StructField("Field3", "string", "string", << >>) >>,
      nested        |-> << StructField("FieldNested", "bool", "bool", <<"fieldNested">>) >>,
      ptrStruct     |-> << StructField("Field1", "*nested", "ptr", <<"field1">>),
                           StructField("Field2", "string", "string", <<"field2">>) >>,
      valueStruct   |-> << StructField("Field1", "nested", "struct", <<"field1">>) >>,
      sliceStruct   |-> << StructField("Field1", "[]*nested", "slice", <<"field">>) >>,
      arrayStruct   |-> << StructField("Field1", "[2]*nested", "array", <<"field">>) >>,
      stringsStruct |-> << StructField("Field1", "[]string", "slice", <<"field">>) >>,
      mapStruct     |-> << StructField("Field1", "map[string]string", "map", <<"field">>),
                           StructField("Field3", "map[string]string", "map", << >>) >>,
      updateStruct  |-> << StructField("Field1", "*string", "ptr", <<"field1">>),
                           StructField("Field2", "*int", "ptr", <<"field2">>) >>,
      mixedStruct   |-> << StructField("Field1", "*string", "ptr", <<"field1">>),
                           StructField("Field2", "int", "int", <<"field2">>),
                           StructField("Field3", "*int", "ptr", <<"field3">>) >> ]

(***************************************************************************)
(* package reflect, as far as the package uses it.                         *)
(***************************************************************************)
\* Value.IsNil is defined for these kinds and panics for every other one
NilableKinds == {"chan", "func", "map", "ptr", "unsafe.Pointer", "interface", "slice"}
KindName(val) == IF val.k = "invalid" THEN "zero" ELSE val.k
IsNilPanic(val) == "reflect: call of reflect.Value.IsNil on " \o KindName(val) \o " Value"

FieldIndex(structType, name) ==
    LET hits == {i \in DOMAIN Types[structType] : Types[structType][i].Name = name}
    IN  IF hits = {} THEN 0 ELSE CHOOSE i \in hits : TRUE
\* Type.FieldByName: the zero StructField for an unknown name
TypeFieldByName(structType, name) ==
    IF FieldIndex(structType, name) = 0 THEN ZeroStructField
    ELSE Types[structType][FieldIndex(structType, name)]
\* Value.FieldByName: the zero Value for an unknown name
ValueFieldByName(structValue, name) ==
    IF FieldIndex(structValue.t, name) = 0 THEN Invalid
    ELSE structValue.v[FieldIndex(structValue.t, name)]
\* StructTag.Lookup("json")
TagLookup(structField) ==
    IF structField.Tag = << >> THEN [ok |-> FALSE, val |-> ""]
    ELSE [ok |-> TRUE, val |-> structField.Tag[1]]

(***************************************************************************)
(* Field lists: the elements of a []interface{} are a field name, a func   *)
(* (of type FieldSerializer or of another func type), a                    *)
(* map[string][]interface{} (the keys in the order range visits them) or   *)
(* a value of any other type.                                              *)
(***************************************************************************)
Leaf(name) == [k |-> "string", t |-> "string", s |-> name, m |-> << >>]
Func(t, id) == [k |-> "func", t |-> t, s |-> id, m |-> << >>]
Nested(pairs) == [k |-> "map", t |-> "map[string][]interface {}", s |-> "", m |-> pairs]
Pair(key, mapFields) == [key |-> key, fields |-> mapFields]
Other(k, t) == [k |-> k, t |-> t, s |-> "", m |-> << >>]

\* The FieldSerializer callbacks of the callers: what each returns.
FieldSerializers ==
    [ computed |-> [fieldName |-> "computed", value |-> IntVal(7)],
      shadow   |-> [fieldName |-> "field1", value |-> StrVal("shadow")] ]

MissingTagPanic(name) == "Field \"" \o name \o "\" has no json tag"
UndefinedTypePanic == "Undefined type for serializer. Need to implement it"
UndefinedFuncPanic == "Undefined func type for serializer."
TypeAssertionPanic(name) ==
    "interface conversion: interface {} is " \o (IF name.k = "invalid" THEN "nil" ELSE name.t)
        \o ", not map[string][]interface {}"

\* getSerializedName falling back on the Go name of a field without json tag
getSerializedNameDefault(structField) ==
    LET tag == TagLookup(structField)
    IN  [ok |-> TRUE, val |-> IF tag.ok THEN tag.val ELSE structField.Name, panic |-> ""]

getSerializedName(structField) ==
    LET tag == TagLookup(structField)
    IN  IF ~tag.ok THEN Panic(MissingTagPanic(structField.Name))
        ELSE [ok |-> TRUE, val |-> tag.val, panic |-> ""]

\* serializeStrField storing the value under the Go name of the field
serializeStrFieldByName(structValue, structType, fieldName, targetMap) ==
    LET fieldValue == ValueFieldByName(structValue, fieldName)
        fieldType == TypeFieldByName(structType, fieldName)
        serializedName == getSerializedName(fieldType)
    IN  IF ~serializedName.ok THEN serializedName
        ELSE Ok(Put(targetMap, fieldName, fieldValue))

serializeStrField(structValue, structType, fieldName, targetMap) ==
    LET fieldValue == ValueFieldByName(structValue, fieldName)
        fieldType == TypeFieldByName(structType, fieldName)
        serializedName == getSerializedName(fieldType)
    IN  IF ~serializedName.ok THEN serializedName
        ELSE Ok(Put(targetMap, serializedName.val, fieldValue))

RECURSIVE Serialize(_, _)
RECURSIVE SerializeFields(_, _, _, _, _)
RECURSIVE SerializeEntry(_, _, _, _)
RECURSIVE SerializeNested(_, _, _, _)
RECURSIVE SerializeNestedField(_, _, _, _)
RECURSIVE serializeArrayField(_, _, _, _)
RECURSIVE serializeArrayElems(_, _, _, _)

\* the loop of serializeArrayField from index i, container holding the
\* elements serialized so far
serializeArrayElems(fieldValue, mapFields, i, container) ==
    IF i > Len(fieldValue.v) THEN Ok(container)
    ELSE LET elem == Serialize(fieldValue.v[i], mapFields)
         IN  IF ~elem.ok THEN elem
             ELSE serializeArrayElems(fieldValue, mapFields, i + 1,
                                      Append(container, MapVal(elem.val)))

\* serializeArrayField leaving the nil elements out
serializeArrayFieldSkipNil(fieldValue, fieldName, mapFields, targetMap) ==
    LET present(e) == ~e.nil
        kept == [fieldValue EXCEPT !.v = SelectSeq(fieldValue.v, present)]
        serializedContainer == serializeArrayElems(kept, mapFields, 1, << >>)
    IN  IF ~serializedContainer.ok THEN serializedContainer
        ELSE Ok(Put(targetMap, fieldName, SeqVal(serializedContainer.val)))

serializeArrayField(fieldValue, fieldName, mapFields, targetMap) ==
    LET serializedContainer == serializeArrayElems(fieldValue, mapFields, 1, << >>)
    IN  IF ~serializedContainer.ok THEN serializedContainer
        ELSE Ok(Put(targetMap, fieldName, SeqVal(serializedContainer.val)))

\* SerializeNestedField storing a pointer field as it is, without serializing
\* what it points to
SerializeNestedFieldShallow(elem, fieldNameStr, mapFields, result) ==
    LET fieldType == TypeFieldByName(elem.t, fieldNameStr)
        serializedName == getSerializedName(fieldType)
        fieldValue == ValueFieldByName(elem, fieldNameStr)
    IN  IF ~serializedName.ok THEN serializedName
        ELSE CASE fieldType.Kind \in {"slice", "array"} ->
                    serializeArrayField(fieldValue, serializedName.val, mapFields, result)
               [] fieldType.Kind = "ptr" -> Ok(Put(result, serializedName.val, fieldValue))
               [] fieldType.Kind = "struct" ->
                    LET sub == Serialize(Ptr(fieldValue), mapFields)
                    IN  IF ~sub.ok THEN sub
                        ELSE Ok(Put(result, serializedName.val, MapVal(sub.val)))
               [] OTHER -> Panic(UndefinedTypePanic)

\* SerializeNestedField passing over a field of a kind it does not handle
SerializeNestedFieldLenient(elem, fieldNameStr, mapFields, result) ==
    LET fieldType == TypeFieldByName(elem.t, fieldNameStr)
        serializedName == getSerializedName(fieldType)
        fieldValue == ValueFieldByName(elem, fieldNameStr)
    IN  IF ~serializedName.ok THEN serializedName
        ELSE CASE fieldType.Kind \in {"slice", "array"} ->
                    serializeArrayField(fieldValue, serializedName.val, mapFields, result)
               [] fieldType.Kind = "ptr" ->
                    LET sub == Serialize(fieldValue, mapFields)
                    IN  IF ~sub.ok THEN sub
                        ELSE Ok(Put(result, serializedName.val, MapVal(sub.val)))
               [] fieldType.Kind = "struct" ->
                    LET sub == Serialize(Ptr(fieldValue), mapFields)
                    IN  IF ~sub.ok THEN sub
                        ELSE Ok(Put(result, serializedName.val, MapVal(sub.val)))
               [] OTHER -> Ok(result)

\* one key of a map[string][]interface{} element: the body of the inner loop
SerializeNestedField(elem, fieldNameStr, mapFields, result) ==
    LET fieldType == TypeFieldByName(elem.t, fieldNameStr)
        serializedName == getSerializedName(fieldType)
        fieldValue == ValueFieldByName(elem, fieldNameStr)
    IN  IF ~serializedName.ok THEN serializedName
        ELSE CASE fieldType.Kind \in {"slice", "array"} ->
                    serializeArrayField(fieldValue, serializedName.val, mapFields, result)
               [] fieldType.Kind = "ptr" ->
                    LET sub == Serialize(fieldValue, mapFields)
                    IN  IF ~sub.ok THEN sub
                        ELSE Ok(Put(result, serializedName.val, MapVal(sub.val)))
               [] fieldType.Kind = "struct" ->
                    LET sub == Serialize(Ptr(fieldValue), mapFields)
                    IN  IF ~sub.ok THEN sub
                        ELSE Ok(Put(result, serializedName.val, MapVal(sub.val)))
               [] OTHER -> Panic(UndefinedTypePanic)

\* the inner loop over the keys of a map[string][]interface{} element
SerializeNested(elem, pairs, j, result) ==
    IF j > Len(pairs) THEN Ok(result)
    ELSE LET r == SerializeNestedField(elem, pairs[j].key, pairs[j].fields, result)
         IN  IF ~r.ok THEN r ELSE SerializeNested(elem, pairs, j + 1, r.val)

\* SerializeEntry passing over an element that is no name, func or map
SerializeEntrySkipUnknown(m, elem, name, result) ==
    CASE name.k = "string" -> serializeStrField(elem, elem.t, name.s, result)
      [] name.k = "func" /\ name.t = "FieldSerializer" ->
            Ok(Put(result, FieldSerializers[name.s].fieldName,
                           FieldSerializers[name.s].value))
      [] name.t = "map[string][]interface {}" -> SerializeNested(elem, name.m, 1, result)
      [] OTHER -> Ok(result)

\* one element of the field list: the body of the outer loop
SerializeEntry(m, elem, name, result) ==
    CASE name.k = "string" -> serializeStrField(elem, elem.t, name.s, result)
      [] name.k = "func" ->
            IF name.t = "FieldSerializer"
            THEN Ok(Put(result, FieldSerializers[name.s].fieldName,
                                FieldSerializers[name.s].value))
            ELSE Panic(UndefinedFuncPanic)
      [] OTHER ->
            IF name.t # "map[string][]interface {}" THEN Panic(TypeAssertionPanic(name))
            ELSE SerializeNested(elem, name.m, 1, result)

\* the outer loop of Serialize from element i of the field list
SerializeFields(m, elem, fieldList, i, result) ==
    IF i > Len(fieldList) THEN Ok(result)
    ELSE LET r == SerializeEntry(m, elem, fieldList[i], result)
         IN  IF ~r.ok THEN r ELSE SerializeFields(m, elem, fieldList, i + 1, r.val)

Serialize(m, fieldList) ==
    IF m.k \notin NilableKinds THEN Panic(IsNilPanic(m))
    ELSE IF m.nil THEN Ok(EmptyMap)
    ELSE IF m.k \notin {"ptr", "interface"}
    THEN Panic("reflect: call of reflect.Value.Elem on " \o KindName(m) \o " Value")
    ELSE SerializeFields(m, m.v, fieldList, 1, EmptyMap)

RECURSIVE SerializeListFrom(_, _, _, _)
\* the loop of SerializeList from index i, res holding the maps made so far
SerializeListFrom(models, fieldList, i, res) ==
    IF i > Len(models) THEN [ok |-> TRUE, val |-> res, panic |-> ""]
    ELSE LET r == Serialize(models[i], fieldList)
         IN  IF ~r.ok THEN [ok |-> FALSE, val |-> << >>, panic |-> r.panic]
             ELSE SerializeListFrom(models, fieldList, i + 1, Append(res, r.val))

\* SerializeList leaving the nil models out
SerializeListSkipNil(models, fieldList) ==
    LET present(e) == ~e.nil
    IN  SerializeListFrom(SelectSeq(models, present), fieldList, 1, << >>)

SerializeList(models, fieldList) == SerializeListFrom(models, fieldList, 1, << >>)

containsField(field, fieldList) == \E i \in DOMAIN fieldList : fieldList[i] = field

\* reflect.Zero of the type of a field of a nilable kind
Zero(field) ==
    [k |-> field.k, nil |-> TRUE, t |-> field.t,
     v |-> IF field.k = "ptr" THEN Invalid ELSE << >>]

RECURSIVE FilterFieldsFrom(_, _, _)
\* the loop of FilterFields from field i of the struct modelValue
FilterFieldsFrom(modelValue, fieldList, i) ==
    IF i > Len(Types[modelValue.t]) THEN Ok(modelValue)
    ELSE LET field == modelValue.v[i]
         IN  IF field.k \notin NilableKinds
             THEN [ok |-> FALSE, val |-> modelValue, panic |-> IsNilPanic(field)]
             ELSE IF ~field.nil /\ ~containsField(Types[modelValue.t][i].Name, fieldList)
             THEN FilterFieldsFrom([modelValue EXCEPT !.v[i] = Zero(field)], fieldList, i + 1)
             ELSE FilterFieldsFrom(modelValue, fieldList, i + 1)

\* FilterFields: val is what m points to when the call ends, also when it
\* ends in a panic
FilterFields(m, fieldList) ==
    IF m.k \notin {"ptr", "interface"}
    THEN [ok |-> FALSE, val |-> m.v,
          panic |-> "reflect: call of reflect.Value.Elem on " \o KindName(m) \o " Value"]
    ELSE IF m.nil
    THEN [ok |-> FALSE, val |-> m.v,
          panic |-> "reflect: call of reflect.Value.Type on zero Value"]
    ELSE FilterFieldsFrom(m.v, fieldList, 1)

isNilInterface(v) == v.k = "invalid" \/ (v.k = "ptr" /\ v.nil)

RECURSIVE FilterMapFieldsOver(_, _, _)
\* the range loop of FilterMapFields over the keys not visited yet
FilterMapFieldsOver(m, fieldList, keys) ==
    IF keys = {} THEN m
    ELSE LET key == CHOOSE x \in keys : TRUE
         IN  IF ~containsField(key, fieldList) \/ isNilInterface(m[key])
             THEN FilterMapFieldsOver(Delete(m, key), fieldList, keys \ {key})
             ELSE FilterMapFieldsOver(m, fieldList, keys \ {key})

FilterMapFields(m, fieldList) == FilterMapFieldsOver(m, fieldList, DOMAIN m)

(***************************************************************************)
(* The values the calls are checked on.                                    *)
(***************************************************************************)
NestedValues == {Struct("nested", <<BoolVal(b)>>) : b \in BOOLEAN}
NestedPtrs == {NilPtr("nested")} \cup {Ptr(n) : n \in NestedValues}

TestStructs ==
    {Struct("testStruct", <<StrVal(a), IntVal(b), StrVal("hidden")>>) :
        a \in {"foo", "bar"}, b \in {42, 7}}
PtrStructs == {Struct("ptrStruct", <<p, StrVal("foo")>>) : p \in NestedPtrs}
ValueStructs == {Struct("valueStruct", <<n>>) : n \in NestedValues}
SliceStructs ==
    {Struct("sliceStruct", <<s>>) :
        s \in {NilSlice("[]*nested")}
                \cup {Slice("[]*nested", e) : e \in SeqsUpTo(NestedPtrs, MaxLen)}}
ArrayStructs ==
    {Struct("arrayStruct", <<Array("[2]*nested", <<p, q>>)>>) :
        p \in NestedPtrs, q \in {Ptr(n) : n \in NestedValues}}
StringsStructs ==
    {Struct("stringsStruct", <<Slice("[]string", e)>>) :
        e \in {<< >>, <<StrVal("foo"), StrVal("bar")>>}}
MapStructs == {Struct("mapStruct", <<StrMap(a), StrMap(TRUE)>>) : a \in BOOLEAN}
UpdateStructs ==
    {Struct("updateStruct", <<p, q>>) :
        p \in {NilPtr("string"), Ptr(StrVal("foo"))}, q \in {NilPtr("int"), Ptr(IntVal(42))}}
MixedStructs ==
    {Struct("mixedStruct", <<p, IntVal(42), q>>) :
        p \in {NilPtr("string"), Ptr(StrVal("foo"))}, q \in {NilPtr("int"), Ptr(IntVal(42))}}

\* the models handed to Serialize: no value at all, a nil pointer, a pointer
\* to a struct
SerializeModels ==
    {Invalid, NilPtr("testStruct")}
        \cup {Ptr(o) : o \in TestStructs \cup PtrStructs \cup ValueStructs
                              \cup SliceStructs \cup ArrayStructs \cup StringsStructs
                              \cup MapStructs}
\* the models SerializeList is checked on
ListModels ==
    {Ptr(Struct("testStruct", <<StrVal("foo"), IntVal(42), StrVal("hidden")>>))}
        \cup {Ptr(o) : o \in PtrStructs}

ChildFieldLists == {<< >>, <<Leaf("FieldNested")>>, <<Leaf("Field1")>>}
Entries ==
    {Leaf(n) : n \in {"Field1", "Field2", "Field3"}}
        \cup {Func("FieldSerializer", "computed"), Func("FieldSerializer", "shadow"),
              Func("func(interface {}) (string, interface {})", "computed"),
              Other("int", "int"), Other("invalid", "")}
        \cup {Nested(<<Pair("Field1", c)>>) : c \in ChildFieldLists}
        \cup {Nested(<<Pair("Field3", << >>)>>),
              Nested(<<Pair("Field1", << >>), Pair("Field3", << >>)>>),
              Nested(<<Pair("Field3", << >>), Pair("Field1", << >>)>>)}
FieldLists == SeqsUpTo(Entries, MaxFields)

\* the models handed to FilterFields
FilterModels ==
    {NilPtr("updateStruct")}
        \cup {Ptr(o) : o \in UpdateStructs \cup MixedStructs \cup TestStructs
                              \cup SliceStructs \cup MapStructs}
\* the []string handed to FilterFields
FieldNameLists == SeqsUpTo({"Field1", "Field2", "Field3"}, MaxFields)

\* the maps handed to FilterMapFields, and the []string handed with them
MapKeys == {"field1", "field2", "field3"}
MapValues ==
    {IntVal(1), StrVal("val"), Invalid, NilPtr("int"), Ptr(IntVal(42)), StrMap(TRUE)}
Maps == UNION {[keys -> MapValues] : keys \in SUBSET MapKeys}
KeyLists == SeqsUpTo(MapKeys, MaxFields)

NoCall == [op |-> "none", arg |-> << >>]
NoOut == [ok |-> TRUE, val |-> EmptyMap, panic |-> ""]

(***************************************************************************)
(* Serialize: a caller holds a model and a field list and makes one call.  *)
(***************************************************************************)
Init ==
    /\ model \in SerializeModels
    /\ fields \in FieldLists
    /\ mapData = EmptyMap
    /\ call = NoCall
    /\ out = NoOut

CallSerialize ==
    /\ call.op = "none"
    /\ call' = [op |-> "Serialize", arg |-> << >>]
    /\ out' = Serialize(model, fields)
    /\ UNCHANGED <<model, fields, mapData>>

Next == CallSerialize

Spec == Init /\ [][Next]_vars

(***************************************************************************)
(* SerializeList: the caller hands over a slice that holds the model and   *)
(* nil pointers of its type.                                               *)
(***************************************************************************)
InitList ==
    /\ model \in ListModels
    /\ fields \in FieldLists
    /\ mapData = EmptyMap
    /\ call = NoCall
    /\ out = NoOut

CallSerializeList ==
    /\ call.op = "none"
    /\ \E models \in SeqsUpTo({model, NilPtr(model.t)}, MaxList) :
          /\ call' = [op |-> "SerializeList", arg |-> models]
          /\ out' = SerializeList(models, fields)
    /\ UNCHANGED <<model, fields, mapData>>

NextList == CallSerializeList

SpecList == InitList /\ [][NextList]_vars

(***************************************************************************)
(* FilterFields: the caller hands over a model and a list of field names;  *)
(* the call changes the struct the model points to.                        *)
(***************************************************************************)
InitFilter ==
    /\ model \in FilterModels
    /\ fields \in FieldNameLists
    /\ mapData = EmptyMap
    /\ call = NoCall
    /\ out = NoOut

CallFilterFields ==
    /\ call.op = "none"
    /\ LET r == FilterFields(model, fields)
       IN  /\ model' = [model EXCEPT !.v = r.val]
           /\ out' = [ok |-> r.ok, val |-> EmptyMap, panic |-> r.panic]
    /\ call' = [op |-> "FilterFields", arg |-> model]
    /\ UNCHANGED <<fields, mapData>>

NextFilter == CallFilterFields

SpecFilter == InitFilter /\ [][NextFilter]_vars

(***************************************************************************)
(* FilterMapFields: the caller hands over a map and a list of keys; the    *)
(* call changes the map.                                                   *)
(***************************************************************************)
InitMap ==
    /\ model = Invalid
    /\ fields \in KeyLists
    /\ mapData \in Maps
    /\ call = NoCall
    /\ out = NoOut

CallFilterMapFields ==
    /\ call.op = "none"
    /\ mapData' = FilterMapFields(mapData, fields)
    /\ call' = [op |-> "FilterMapFields", arg |-> mapData]
    /\ out' = NoOut
    /\ UNCHANGED <<model, fields>>

NextMap == CallFilterMapFields

SpecMap == InitMap /\ [][NextMap]_vars

(***************************************************************************)
(* The words of the properties.                                            *)
(***************************************************************************)
\* a handle on a record, and a handle on none
IsRecord(m) == m.k = "ptr" /\ ~m.nil /\ m.v.k = "struct"
IsNullHandle(m) == m.k = "invalid" \/ m.nil
\* a value that is a nil of its kind, or no value at all
IsNullValue(v) == v.nil

Serialized == call.op = "Serialize" /\ IsRecord(model)
DeclaredField(name) == TypeFieldByName(model.v.t, name)
HasField(name) == FieldIndex(model.v.t, name) # 0
HasWireName(name) == HasField(name) /\ DeclaredField(name).Tag # << >>
WireName(name) == DeclaredField(name).Tag[1]
CurrentValue(name) == model.v.v[FieldIndex(model.v.t, name)]
Names(fieldList) == {fieldList[i].s : i \in DOMAIN fieldList}

\* the types a Nested entry may target
PointerToRecord == {"*nested"}
ValueRecord == {"nested"}
SequenceOfRecords == {"[]*nested", "[2]*nested"}

\* the call on the entries before entry i, and on those and the keys of
\* entry i visited before its j-th
Before(i) == Serialize(model, SubSeq(fields, 1, i - 1))
BeforeKey(i, j) ==
    Serialize(model, Append(SubSeq(fields, 1, i - 1), Nested(SubSeq(fields[i].m, 1, j - 1))))
IsNestedEntry(i) == fields[i].k = "map" /\ fields[i].t = "map[string][]interface {}"
\* the field list is the one entry {key: child}
SoleNested == Len(fields) = 1 /\ IsNestedEntry(1) /\ Len(fields[1].m) = 1

\* C1: for a record and a list of names of fields that all carry a wire
\* name, Serialize returns a map whose keys are exactly the wire names of the
\* named fields, each holding the current value of its field.
C1_LeafOnly ==
    \A i \in DOMAIN fields : fields[i].k = "string" /\ HasWireName(fields[i].s)
C1_Serialize_Leaves ==
    (Serialized /\ C1_LeafOnly) =>
        /\ out.ok
        /\ DOMAIN out.val = {WireName(n) : n \in Names(fields)}
        /\ \A n \in Names(fields) : out.val[WireName(n)] = CurrentValue(n)
C1_Witness ==
    /\ Serialized /\ C1_LeafOnly
    /\ Cardinality(Names(fields)) = 2
    /\ out.ok /\ Cardinality(DOMAIN out.val) = 2

\* C2: Serialize of a null handle, of whatever form, returns the empty map
\* and does not fail, whatever the field list holds.
C2_Null_Gives_Empty_Map ==
    (call.op = "Serialize" /\ IsNullHandle(model)) => (out.ok /\ out.val = EmptyMap)

\* C3: SerializeList gives one result per model, in order, the i-th being what
\* Serialize gives for the i-th model; it fails as Serialize first fails.
C3_Each(i) == Serialize(call.arg[i], fields)
C3_SerializeList_Pointwise ==
    call.op = "SerializeList" =>
        IF \A i \in DOMAIN call.arg : C3_Each(i).ok
        THEN /\ out.ok
             /\ Len(out.val) = Len(call.arg)
             /\ \A i \in DOMAIN call.arg : out.val[i] = C3_Each(i).val
        ELSE /\ ~out.ok
             /\ \E i \in DOMAIN call.arg :
                   /\ ~C3_Each(i).ok
                   /\ \A j \in 1..(i - 1) : C3_Each(j).ok
                   /\ out.panic = C3_Each(i).panic
C3_Witness ==
    /\ call.op = "SerializeList"
    /\ Len(call.arg) = 2 /\ call.arg[1].nil /\ ~call.arg[2].nil
    /\ out.ok /\ Len(out.val) = 2
    /\ out.val[1] = EmptyMap /\ out.val[2] # EmptyMap

\* C4: for a pointer-to-record field F with wire name f, Serialize with the
\* one entry {F: c} gives {f: Serialize(what F points to, c)}, failing as that
\* call fails; a nil F gives {f: {}}.
C4_Case ==
    /\ Serialized /\ SoleNested
    /\ HasWireName(fields[1].m[1].key)
    /\ DeclaredField(fields[1].m[1].key).Type \in PointerToRecord
C4_Nested_Pointer ==
    C4_Case =>
        LET F == CurrentValue(fields[1].m[1].key)
            f == WireName(fields[1].m[1].key)
            sub == Serialize(F, fields[1].m[1].fields)
        IN  /\ sub.ok => (out.ok /\ out.val = (f :> MapVal(sub.val)))
            /\ ~sub.ok => (~out.ok /\ out.panic = sub.panic)
            /\ F.nil => (out.ok /\ out.val = (f :> MapVal(EmptyMap)))
C4_Witness ==
    /\ C4_Case
    /\ ~CurrentValue(fields[1].m[1].key).nil
    /\ out.ok
    /\ out.val[WireName(fields[1].m[1].key)].v
          = ("fieldNested" :> CurrentValue(fields[1].m[1].key).v.v[1])

\* C5: an entry {F: c} for a field F that is an array or slice of
\* pointer-to-record puts under the wire name of F a sequence as long as F
\* whose i-th element is Serialize(F[i], c), failing as the first of these
\* calls that fails.  The entry is the last of the list, the ones before it
\* not failing.
C5_Case ==
    /\ Serialized /\ fields # << >>
    /\ IsNestedEntry(Len(fields)) /\ Len(fields[Len(fields)].m) = 1
    /\ HasWireName(fields[Len(fields)].m[1].key)
    /\ DeclaredField(fields[Len(fields)].m[1].key).Type \in SequenceOfRecords
    /\ Before(Len(fields)).ok
C5_Each(i) ==
    Serialize(CurrentValue(fields[Len(fields)].m[1].key).v[i], fields[Len(fields)].m[1].fields)
C5_Nested_Sequence ==
    C5_Case =>
        LET F == CurrentValue(fields[Len(fields)].m[1].key)
            f == WireName(fields[Len(fields)].m[1].key)
        IN  IF \A i \in DOMAIN F.v : C5_Each(i).ok
            THEN /\ out.ok
                 /\ f \in DOMAIN out.val
                 /\ out.val[f].k = "slice"
                 /\ Len(out.val[f].v) = Len(F.v)
                 /\ \A i \in DOMAIN F.v : out.val[f].v[i] = MapVal(C5_Each(i).val)
            ELSE /\ ~out.ok
                 /\ \E i \in DOMAIN F.v :
                       /\ ~C5_Each(i).ok
                       /\ \A j \in 1..(i - 1) : C5_Each(j).ok
                       /\ out.panic = C5_Each(i).panic
C5_Witness ==
    /\ C5_Case
    /\ Len(CurrentValue(fields[Len(fields)].m[1].key).v) = 2
    /\ fields[Len(fields)].m[1].fields = <<Leaf("FieldNested")>>
    /\ out.ok
    /\ out.val[WireName(fields[Len(fields)].m[1].key)].v
          = << MapVal("fieldNested" :> BoolVal(TRUE)), MapVal("fieldNested" :> BoolVal(FALSE)) >>

\* C6: FilterFields completes; after it every nilable field not named in the
\* list is the zero of its type, every nilable field named in it is as it was,
\* and every other field is as it was.
C6_FilterFields_Completes ==
    (call.op = "FilterFields" /\ IsRecord(call.arg)) =>
        /\ out.ok
        /\ \A i \in DOMAIN Types[call.arg.v.t] :
              LET was == call.arg.v.v[i]
                  is == model.v.v[i]
                  named == \E j \in DOMAIN fields : fields[j] = Types[call.arg.v.t][i].Name
              IN  IF was.k \in NilableKinds /\ ~named THEN is.k = was.k /\ is.nil
                  ELSE is = was

\* C7: after FilterMapFields the keys of the map are the keys it had that are
\* in the list and whose value was not a null reference, each with the value
\* it had.
C7_FilterMapFields_Keys ==
    call.op = "FilterMapFields" =>
        /\ DOMAIN mapData
              = {key \in DOMAIN call.arg :
                    /\ \E j \in DOMAIN fields : fields[j] = key
                    /\ ~IsNullValue(call.arg[key])}
        /\ \A key \in DOMAIN mapData : mapData[key] = call.arg[key]

\* C8, as claimed: a Nested entry whose target field is not of a type that is
\* a pointer-to-record, a value-record or a sequence of pointer-to-record
\* makes Serialize fail with "Undefined type for serializer. Need to
\* implement it", whatever the value, the tag and the child list.
C8_Unsupported_Always ==
    Serialized =>
        \A i \in DOMAIN fields : IsNestedEntry(i) =>
            \A j \in DOMAIN fields[i].m :
                (/\ HasField(fields[i].m[j].key)
                 /\ DeclaredField(fields[i].m[j].key).Type
                        \notin PointerToRecord \cup ValueRecord \cup SequenceOfRecords)
                    => (~out.ok /\ out.panic = UndefinedTypePanic)
\* C8, amended: a Nested entry whose target field is of a kind other than
\* pointer, struct, slice and array makes Serialize fail; when nothing
\* before it in the list fails, the failure is "Undefined type for
\* serializer. Need to implement it" for a field with a json tag and
\* `Field "<name>" has no json tag` for a field without one.
C8_Unsupported_Kind ==
    Serialized =>
        \A i \in DOMAIN fields : IsNestedEntry(i) =>
            \A j \in DOMAIN fields[i].m :
                (/\ HasField(fields[i].m[j].key)
                 /\ DeclaredField(fields[i].m[j].key).Kind
                        \notin {"ptr", "struct", "slice", "array"})
                    => /\ ~out.ok
                       /\ BeforeKey(i, j).ok =>
                             out.panic = IF HasWireName(fields[i].m[j].key)
                                         THEN UndefinedTypePanic
                                         ELSE MissingTagPanic(fields[i].m[j].key)
C8_Witness ==
    /\ Serialized /\ Len(fields) = 2 /\ IsNestedEntry(2)
    /\ HasWireName(fields[2].m[1].key)
    /\ DeclaredField(fields[2].m[1].key).Kind = "map"
    /\ Before(2).ok
    /\ ~out.ok /\ out.panic = UndefinedTypePanic

\* C9, as claimed: a Leaf entry naming a field without wire name makes
\* Serialize fail with `Field "<name>" has no json tag` for that field.
C9_Missing_Tag_Always ==
    Serialized =>
        \A i \in DOMAIN fields :
            (fields[i].k = "string" /\ HasField(fields[i].s) /\ ~HasWireName(fields[i].s))
                => (~out.ok /\ out.panic = MissingTagPanic(fields[i].s))
\* C9, amended: a Leaf entry naming a field without wire name makes Serialize
\* fail, never return a map; when no entry before it fails, the failure is
\* `Field "<name>" has no json tag` for that field.
C9_Missing_Tag ==
    Serialized =>
        \A i \in DOMAIN fields :
            (fields[i].k = "string" /\ HasField(fields[i].s) /\ ~HasWireName(fields[i].s))
                => /\ ~out.ok
                   /\ Before(i).ok => out.panic = MissingTagPanic(fields[i].s)
C9_Witness ==
    /\ Serialized /\ Len(fields) = 2
    /\ fields[2].k = "string" /\ HasField(fields[2].s) /\ ~HasWireName(fields[2].s)
    /\ Before(2).ok /\ Before(2).val # EmptyMap
    /\ ~out.ok /\ out.panic = "Field \"Field3\" has no json tag"

\* C10: an element of the field list that is no field name, no
\* FieldSerializer and no map of names to child lists makes Serialize fail:
\* with the failure of that element when no entry before it fails, and with
\* the failure of an earlier entry otherwise; no map is returned.
C10_IsVariant(e) ==
    \/ e.k = "string"
    \/ e.k = "func" /\ e.t = "FieldSerializer"
    \/ e.k = "map" /\ e.t = "map[string][]interface {}"
C10_Unknown_Entry ==
    Serialized =>
        \A i \in DOMAIN fields : ~C10_IsVariant(fields[i]) =>
            /\ ~out.ok
            /\ Before(i).ok =>
                  out.panic = IF fields[i].k = "func" THEN UndefinedFuncPanic
                              ELSE TypeAssertionPanic(fields[i])
            /\ ~Before(i).ok => out.panic = Before(i).panic
C10_Witness ==
    /\ Serialized /\ Len(fields) = 2
    /\ ~C10_IsVariant(fields[2])
    /\ Before(2).ok /\ Before(2).val # EmptyMap
    /\ ~out.ok /\ out.panic = "interface conversion: interface {} is int, not map[string][]interface {}"

====
